---- MODULE Spec2Model ----
(***************************************************************************)
(* Word-to-speaker alignment (zettlecast/podcast/aligner.py).              *)
(*                                                                         *)
(* Times are integers (seconds).  Every threshold that the source holds    *)
(* as a float (min_duration = 1.5, min_speaker_time_ratio = 0.05) is a     *)
(* rational [num, den]; a comparison x < num/den is computed as            *)
(* x * den < num, which agrees with the float comparison on the small      *)
(* integer times used here.                                                *)
(*                                                                         *)
(* A Word is [text, start, end, speaker]; text doubles as the identity of  *)
(* the word object.  None is the unset speaker.                            *)
(***************************************************************************)
EXTENDS Integers, Sequences, FiniteSets, TLC

VARIABLES
    pc,                     \* position of the caller
    rttm_content,           \* align_*: the diarization text, a sequence of lines
    annotation,             \* align_with_pyannote: the tracks of the annotation
    words,                  \* align_*: the word list as assign_speakers_to_words returns it
    speaker_segments,       \* align_*: result of parse_rttm
    grouped,                \* align_*: result of group_words_by_speaker
    micro,                  \* align_*: result of merge_micro_segments
    segments,               \* argument of the last merge call
    result,                 \* value returned by the last call
    merge_map,              \* merge_similar_speakers: its local merge_map
    min_duration,           \* merge_micro_segments: threshold argument
    min_speaker_segments,   \* merge_similar_speakers: threshold argument
    min_speaker_time_ratio, \* merge_similar_speakers: threshold argument
    merged,                 \* merge_micro_segments: local list of the loop
    changed,                \* merge_micro_segments: local flag of the loop
    passes,                 \* merge_micro_segments: completed passes of the loop
    job                     \* two invocations of the pipeline, each with its
                            \* own arguments and locals

vars == <<pc, rttm_content, annotation, words, speaker_segments, grouped, micro,
          segments, result, merge_map, min_duration, min_speaker_segments,
          min_speaker_time_ratio, merged, changed, passes, job>>

----------------------------------------------------------------------------
(* Bounds *)

MaxSegs == 3
MaxTime == 2
MaxWords == 5
MaxTurns == 5
MaxRun == 5
MaxDiar == 2
MaxAssignTime == 5
MaxLines == 3
MaxStart == 2
MaxJobWords == 5
MaxJobTurns == 5

----------------------------------------------------------------------------
(* Data *)

None == "None"

Labels == <<"S0", "S1", "S2">>

LabelSet == {Labels[i] : i \in DOMAIN Labels}

Max2(a, b) == IF a >= b THEN a ELSE b

Min2(a, b) == IF a <= b THEN a ELSE b

Abs(a) == IF a >= 0 THEN a ELSE -a

SetMin(S) == CHOOSE x \in S : \A y \in S : x <= y

SetMax(S) == CHOOSE x \in S : \A y \in S : x >= y

Word(text, start, end) ==
    [text |-> text, start |-> start, end |-> end, speaker |-> None]

SpeakerSegment(speaker, start, end) ==
    [speaker |-> speaker, start |-> start, end |-> end]

TranscriptSegment(speaker, ws, start, end) ==
    [speaker |-> speaker, words |-> ws, start |-> start, end |-> end,
     text |-> [i \in DOMAIN ws |-> ws[i].text]]

\* Mutant of overlaps_with: intervals that only touch overlap too.
overlaps_with_touching(seg, word) ==
    ~(word.end < seg.start \/ word.start > seg.end)

overlaps_with(seg, word) ==
    ~(word.end <= seg.start \/ word.start >= seg.end)

overlap_duration(seg, word) ==
    Max2(0, Min2(seg.end, word.end) - Max2(seg.start, word.start))

----------------------------------------------------------------------------
(* parse_rttm.  A line is [marker, nparts, numeric, start, duration,       *)
(* speaker]: marker says the line starts with SPEAKER, nparts is           *)
(* len(line.split()), numeric says float() accepts fields 3 and 4.         *)

\* Mutant of SortedInsert: the list is left in the order of the lines.
SortedInsertAtEnd(sorted, s) == Append(sorted, s)

RECURSIVE SortedInsert(_, _)
SortedInsert(sorted, s) ==
    IF sorted = <<>> THEN <<s>>
    ELSE IF Head(sorted).start <= s.start
         THEN <<Head(sorted)>> \o SortedInsert(Tail(sorted), s)
         ELSE <<s>> \o sorted

RECURSIVE SortByStart(_)
SortByStart(segs) ==
    IF segs = <<>> THEN <<>>
    ELSE SortedInsert(SortByStart(SubSeq(segs, 1, Len(segs) - 1)), segs[Len(segs)])

\* Mutant of ParsedLines: a short SPEAKER line ends the loop.
RECURSIVE ParsedLinesStopAtShort(_)
ParsedLinesStopAtShort(lines) ==
    IF lines = <<>> THEN <<>>
    ELSE LET line == Head(lines)
         IN IF ~line.marker THEN ParsedLinesStopAtShort(Tail(lines))
            ELSE IF line.nparts < 8 THEN <<>>
            ELSE <<SpeakerSegment(line.speaker, line.start,
                                  line.start + line.duration)>>
                 \o ParsedLinesStopAtShort(Tail(lines))

\* Mutant of ParsedLines: a short SPEAKER line is not skipped.
RECURSIVE ParsedLinesKeepShort(_)
ParsedLinesKeepShort(lines) ==
    IF lines = <<>> THEN <<>>
    ELSE LET line == Head(lines)
             rest == ParsedLinesKeepShort(Tail(lines))
         IN IF ~line.marker
            THEN rest
            ELSE <<SpeakerSegment(line.speaker, line.start,
                                  line.start + line.duration)>> \o rest

RECURSIVE ParsedLines(_)
ParsedLines(lines) ==
    IF lines = <<>> THEN <<>>
    ELSE LET line == Head(lines)
             rest == ParsedLines(Tail(lines))
         IN IF ~line.marker \/ line.nparts < 8
            THEN rest
            ELSE <<SpeakerSegment(line.speaker, line.start,
                                  line.start + line.duration)>> \o rest

\* start_time = float(parts[3]); duration = float(parts[4]): float raises
\* ValueError on a field that is not a number, and nothing catches it
FloatRaises(line) == line.marker /\ line.nparts >= 8 /\ ~line.numeric

\* the call ends with the ValueError of the first such line it reaches
parse_rttm_raises(content) ==
    \E i \in DOMAIN content : FloatRaises(content[i])

\* the value returned when no line raises
parse_rttm(content) == SortByStart(ParsedLines(content))

\* parse_pyannote_annotation.  The annotation is the sequence of its
\* tracks; a track is [start, end, speaker] (turn.start, turn.end, label).
parse_pyannote_annotation(tracks) ==
    SortByStart([i \in DOMAIN tracks |->
                    SpeakerSegment(tracks[i].speaker, tracks[i].start,
                                   tracks[i].end)])

----------------------------------------------------------------------------
(* assign_speakers_to_words *)

Overlapping(word, segs) ==
    SelectSeq(segs, LAMBDA seg : overlaps_with(seg, word))

\* Mutant of ClosestKey: only the start boundaries are compared.
ClosestKeyStartOnly(s, word) == Abs(s.start - word.start)

\* Mutant of ClosestKey: the farther of the two boundary differences.
ClosestKeyFarther(s, word) ==
    Max2(Abs(s.start - word.start), Abs(s.end - word.end))

ClosestKey(s, word) ==
    Min2(Abs(s.start - word.start), Abs(s.end - word.end))

\* min(seq, key=...): the first element with the least key
FirstClosest(segs, word) ==
    LET i == SetMin({k \in DOMAIN segs :
                        \A j \in DOMAIN segs :
                            ClosestKey(segs[k], word) <= ClosestKey(segs[j], word)})
    IN segs[i]

\* Mutant of FirstBestOverlap: min in place of max.
FirstLeastOverlap(segs, word) ==
    LET i == SetMin({k \in DOMAIN segs :
                        \A j \in DOMAIN segs :
                            overlap_duration(segs[k], word)
                                <= overlap_duration(segs[j], word)})
    IN segs[i]

\* Mutant of FirstBestOverlap: the last element with the greatest key.
LastBestOverlap(segs, word) ==
    LET i == SetMax({k \in DOMAIN segs :
                        \A j \in DOMAIN segs :
                            overlap_duration(segs[k], word)
                                >= overlap_duration(segs[j], word)})
    IN segs[i]

\* max(seq, key=...): the first element with the greatest key
FirstBestOverlap(segs, word) ==
    LET i == SetMin({k \in DOMAIN segs :
                        \A j \in DOMAIN segs :
                            overlap_duration(segs[k], word)
                                >= overlap_duration(segs[j], word)})
    IN segs[i]

\* Mutant of AssignedSpeaker: the single overlap is read from the whole
\* list, not from the overlapping ones.
AssignedSpeakerFromWholeList(word, segs) ==
    LET overlapping == Overlapping(word, segs)
    IN IF overlapping = <<>> THEN FirstClosest(segs, word).speaker
       ELSE IF Len(overlapping) = 1 THEN segs[1].speaker
       ELSE FirstBestOverlap(overlapping, word).speaker

\* Mutant of AssignedSpeaker: a word that overlaps no segment keeps no
\* speaker.
AssignedSpeakerOverlapOnly(word, segs) ==
    LET overlapping == Overlapping(word, segs)
    IN IF overlapping = <<>> THEN None
       ELSE IF Len(overlapping) = 1 THEN overlapping[1].speaker
       ELSE FirstBestOverlap(overlapping, word).speaker

AssignedSpeaker(word, segs) ==
    LET overlapping == Overlapping(word, segs)
    IN IF overlapping = <<>> THEN FirstClosest(segs, word).speaker
       ELSE IF Len(overlapping) = 1 THEN overlapping[1].speaker
       ELSE FirstBestOverlap(overlapping, word).speaker

assign_speakers_to_words(ws, segs) ==
    IF segs = <<>> THEN ws
    ELSE [i \in DOMAIN ws |->
            [ws[i] EXCEPT !.speaker = AssignedSpeaker(ws[i], segs)]]

----------------------------------------------------------------------------
(* group_words_by_speaker *)

\* Mutant of GroupLoop: a word with no speaker stays in the running segment.
RECURSIVE GroupLoopNoneJoins(_, _, _, _, _, _)
GroupLoopNoneJoins(ws, i, segs, current_speaker, current_words, segment_start) ==
    IF i > Len(ws)
    THEN Append(segs, TranscriptSegment(current_speaker, current_words,
                    segment_start, current_words[Len(current_words)].end))
    ELSE IF ws[i].speaker = current_speaker \/ ws[i].speaker = None
         THEN GroupLoopNoneJoins(ws, i + 1, segs, current_speaker,
                        Append(current_words, ws[i]), segment_start)
         ELSE GroupLoopNoneJoins(ws, i + 1,
                        Append(segs, TranscriptSegment(current_speaker,
                            current_words, segment_start,
                            current_words[Len(current_words)].end)),
                        ws[i].speaker, <<ws[i]>>, ws[i].start)

\* the loop over words[1:], carrying segments, current_speaker,
\* current_words and segment_start
RECURSIVE GroupLoop(_, _, _, _, _, _)
GroupLoop(ws, i, segs, current_speaker, current_words, segment_start) ==
    IF i > Len(ws)
    THEN Append(segs, TranscriptSegment(current_speaker, current_words,
                    segment_start, current_words[Len(current_words)].end))
    ELSE IF ws[i].speaker = current_speaker
         THEN GroupLoop(ws, i + 1, segs, current_speaker,
                        Append(current_words, ws[i]), segment_start)
         ELSE GroupLoop(ws, i + 1,
                        Append(segs, TranscriptSegment(current_speaker,
                            current_words, segment_start,
                            current_words[Len(current_words)].end)),
                        ws[i].speaker, <<ws[i]>>, ws[i].start)

\* Mutant of group_words_by_speaker: the closing segment is appended for an
\* empty word list too.
GroupAlwaysCloses(ws) ==
    IF ws = <<>> THEN <<TranscriptSegment(None, <<>>, 0, 0)>>
    ELSE GroupLoop(ws, 2, <<>>, ws[1].speaker, <<ws[1]>>, ws[1].start)

group_words_by_speaker(ws) ==
    IF ws = <<>> THEN <<>>
    ELSE GroupLoop(ws, 2, <<>>, ws[1].speaker, <<ws[1]>>, ws[1].start)

----------------------------------------------------------------------------
(* merge_micro_segments *)

\* Mutant of Shorter: the comparison admits duration = min_duration.
ShorterOrEqual(duration, md) == duration * md.den <= md.num

\* duration < min_duration, min_duration = num/den
Shorter(duration, md) == duration * md.den < md.num

\* Mutant of MicroScan: the last two segments are never candidates.
RECURSIVE MicroScanOffByOne(_, _, _, _)
MicroScanOffByOne(mrg, md, i, st) ==
    IF i > Len(mrg) THEN st
    ELSE LET seg == mrg[i]
             duration == seg.end - seg.start
             new_merged == st.new_merged
         IN IF /\ Shorter(duration, md)
               /\ i > 1
               /\ i < Len(mrg) - 1
               /\ new_merged # <<>>
               /\ new_merged[Len(new_merged)].speaker = mrg[i + 1].speaker
            THEN LET prev == new_merged[Len(new_merged)]
                     combined_words == prev.words \o seg.words
                 IN MicroScanOffByOne(mrg, md, i + 1,
                        [new_merged |->
                            [new_merged EXCEPT ![Len(new_merged)] =
                                TranscriptSegment(prev.speaker, combined_words,
                                                  prev.start, seg.end)],
                         changed |-> TRUE])
            ELSE MicroScanOffByOne(mrg, md, i + 1,
                        [new_merged |-> Append(new_merged, seg),
                         changed |-> st.changed])

\* Mutant of MicroScan: an absorbed segment is also kept in the list.
RECURSIVE MicroScanKeepsSegment(_, _, _, _)
MicroScanKeepsSegment(mrg, md, i, st) ==
    IF i > Len(mrg) THEN st
    ELSE LET seg == mrg[i]
             duration == seg.end - seg.start
             new_merged == st.new_merged
         IN IF /\ Shorter(duration, md)
               /\ i > 1
               /\ i < Len(mrg)
               /\ new_merged # <<>>
               /\ new_merged[Len(new_merged)].speaker = mrg[i + 1].speaker
            THEN LET prev == new_merged[Len(new_merged)]
                     combined_words == prev.words \o seg.words
                 IN MicroScanKeepsSegment(mrg, md, i + 1,
                        [new_merged |->
                            Append([new_merged EXCEPT ![Len(new_merged)] =
                                TranscriptSegment(prev.speaker, combined_words,
                                                  prev.start, seg.end)], seg),
                         changed |-> TRUE])
            ELSE MicroScanKeepsSegment(mrg, md, i + 1,
                        [new_merged |-> Append(new_merged, seg),
                         changed |-> st.changed])

\* the inner while loop of one pass: st = [new_merged, changed]
RECURSIVE MicroScan(_, _, _, _)
MicroScan(mrg, md, i, st) ==
    IF i > Len(mrg) THEN st
    ELSE LET seg == mrg[i]
             duration == seg.end - seg.start
             new_merged == st.new_merged
         IN IF /\ Shorter(duration, md)
               /\ i > 1
               /\ i < Len(mrg)
               /\ new_merged # <<>>
               /\ new_merged[Len(new_merged)].speaker = mrg[i + 1].speaker
            THEN LET prev == new_merged[Len(new_merged)]
                     combined_words == prev.words \o seg.words
                 IN MicroScan(mrg, md, i + 1,
                        [new_merged |->
                            [new_merged EXCEPT ![Len(new_merged)] =
                                TranscriptSegment(prev.speaker, combined_words,
                                                  prev.start, seg.end)],
                         changed |-> TRUE])
            ELSE MicroScan(mrg, md, i + 1,
                        [new_merged |-> Append(new_merged, seg),
                         changed |-> st.changed])

\* Mutant of MicroFinal: the pass ends without merging consecutive segments
\* of one speaker.
MicroFinalSkip(new_merged, i, st) ==
    [final |-> new_merged, changed |-> st.changed]

\* Mutant of MicroFinal: a combined segment keeps the end of its first part.
RECURSIVE MicroFinalKeepsEnd(_, _, _)
MicroFinalKeepsEnd(new_merged, i, st) ==
    IF i > Len(new_merged) THEN st
    ELSE LET seg == new_merged[i]
             final == st.final
         IN IF final # <<>> /\ final[Len(final)].speaker = seg.speaker
            THEN LET prev == final[Len(final)]
                     combined_words == prev.words \o seg.words
                 IN MicroFinalKeepsEnd(new_merged, i + 1,
                        [final |->
                            [final EXCEPT ![Len(final)] =
                                TranscriptSegment(prev.speaker, combined_words,
                                                  prev.start, prev.end)],
                         changed |-> TRUE])
            ELSE MicroFinalKeepsEnd(new_merged, i + 1,
                        [final |-> Append(final, seg), changed |-> st.changed])

\* the for loop of one pass that merges consecutive segments with the same
\* speaker: st = [final, changed]
RECURSIVE MicroFinal(_, _, _)
MicroFinal(new_merged, i, st) ==
    IF i > Len(new_merged) THEN st
    ELSE LET seg == new_merged[i]
             final == st.final
         IN IF final # <<>> /\ final[Len(final)].speaker = seg.speaker
            THEN LET prev == final[Len(final)]
                     combined_words == prev.words \o seg.words
                 IN MicroFinal(new_merged, i + 1,
                        [final |->
                            [final EXCEPT ![Len(final)] =
                                TranscriptSegment(prev.speaker, combined_words,
                                                  prev.start, seg.end)],
                         changed |-> TRUE])
            ELSE MicroFinal(new_merged, i + 1,
                        [final |-> Append(final, seg), changed |-> st.changed])

\* Mutant of MicroPass: a merge of consecutive segments of one speaker is
\* not recorded as a change.
MicroPassForgetsFinal(mrg, md) ==
    LET scan == MicroScan(mrg, md, 1, [new_merged |-> <<>>, changed |-> FALSE])
        fin  == MicroFinal(scan.new_merged, 1,
                           [final |-> <<>>, changed |-> scan.changed])
    IN [merged |-> fin.final, changed |-> scan.changed]

\* one iteration of `while changed`: the new values of merged and changed
MicroPass(mrg, md) ==
    LET scan == MicroScan(mrg, md, 1, [new_merged |-> <<>>, changed |-> FALSE])
        fin  == MicroFinal(scan.new_merged, 1,
                           [final |-> <<>>, changed |-> scan.changed])
    IN [merged |-> fin.final, changed |-> fin.changed]

RECURSIVE MicroLoop(_, _)
MicroLoop(mrg, md) ==
    LET p == MicroPass(mrg, md)
    IN IF p.changed THEN MicroLoop(p.merged, md) ELSE p.merged

\* Mutant of TooFewToMerge: only lists of fewer than two segments are
\* returned at once.
TooFewToMergeBelowTwo(segs) == Len(segs) < 2

\* if len(segments) <= 2: return segments
TooFewToMerge(segs) == Len(segs) <= 2

merge_micro_segments(segs, md) ==
    IF TooFewToMerge(segs) THEN segs ELSE MicroLoop(segs, md)

----------------------------------------------------------------------------
(* merge_similar_speakers *)

SpeakersOf(segs) == {segs[i].speaker : i \in DOMAIN segs}

RECURSIVE SumDuration(_, _)
SumDuration(segs, idx) ==
    IF idx = {} THEN 0
    ELSE LET i == CHOOSE k \in idx : TRUE
         IN (segs[i].end - segs[i].start) + SumDuration(segs, idx \ {i})

speaker_stats(segs) ==
    [sp \in SpeakersOf(segs) |->
        LET idx == {i \in DOMAIN segs : segs[i].speaker = sp}
        IN [segment_count  |-> Cardinality(idx),
            total_duration |-> SumDuration(segs, idx),
            earliest_start |-> SetMin({segs[i].start : i \in idx}),
            latest_end     |-> SetMax({segs[i].end : i \in idx})]]

total_duration(segs) == SumDuration(segs, DOMAIN segs)

\* part / total < ratio, ratio = num/den with den > 0 and total # 0
RatioBelow(part, total, ratio) ==
    IF total > 0 THEN part * ratio.den < ratio.num * total
                 ELSE part * ratio.den > ratio.num * total

\* Mutant of IsMinor: a speaker with exactly min_speaker_segments segments
\* counts as minor.
IsMinorInclusive(st, total, mss, ratio) ==
    \/ st.segment_count <= mss
    \/ RatioBelow(st.total_duration, total, ratio)

IsMinor(st, total, mss, ratio) ==
    \/ st.segment_count < mss
    \/ RatioBelow(st.total_duration, total, ratio)

minor_speakers(segs, mss, ratio) ==
    LET stats == speaker_stats(segs)
        total == total_duration(segs)
    IN {sp \in DOMAIN stats : IsMinor(stats[sp], total, mss, ratio)}

dominant_speakers(segs, mss, ratio) ==
    SpeakersOf(segs) \ minor_speakers(segs, mss, ratio)

Gap(minor_stats, dom_stats) ==
    Max2(0, Max2(minor_stats.earliest_start - dom_stats.latest_end,
                 dom_stats.earliest_start - minor_stats.latest_end))

\* The iteration orders of a set of speakers: the candidates list is filled
\* by iterating the set dominant_speakers, whose order the hashes of the
\* labels decide.
Orders(S) ==
    {f \in [S -> 1..Cardinality(S)] : \A a, b \in S : a # b => f[a] # f[b]}

\* The orders in which `for dom in dominant_speakers` can run; the loop is
\* reached only when there is a minor and a dominant speaker, and a call
\* that returns before it iterates nothing.
IterationOrders(segs, mss, ratio) ==
    LET minor == minor_speakers(segs, mss, ratio)
        dominant == SpeakersOf(segs) \ minor
    IN IF minor = {} \/ dominant = {} THEN Orders({}) ELSE Orders(dominant)

\* Mutant of MergeTarget: the sort key is (gap, duration), not (gap, -duration).
MergeTargetShortest(stats, minor, dominant, order) ==
    LET gap(d) == Gap(stats[minor], stats[d])
        dur(d) == stats[d].total_duration
        before(d, e) ==
            \/ gap(d) < gap(e)
            \/ gap(d) = gap(e) /\ dur(d) < dur(e)
            \/ gap(d) = gap(e) /\ dur(d) = dur(e) /\ order[d] < order[e]
    IN CHOOSE d \in dominant : \A e \in dominant \ {d} : before(d, e)

\* candidates.sort(key=lambda c: (c[1], -c[2])); candidates[0][0]
\* (the sort is stable: equal keys keep the iteration order)
MergeTarget(stats, minor, dominant, order) ==
    LET gap(d) == Gap(stats[minor], stats[d])
        dur(d) == stats[d].total_duration
        before(d, e) ==
            \/ gap(d) < gap(e)
            \/ gap(d) = gap(e) /\ dur(d) > dur(e)
            \/ gap(d) = gap(e) /\ dur(d) = dur(e) /\ order[d] < order[e]
    IN CHOOSE d \in dominant : \A e \in dominant \ {d} : before(d, e)

\* Mutant of Relabel: the segments are relabelled, their words are not.
RelabelSegmentsOnly(segs, mm) ==
    [i \in DOMAIN segs |->
        IF segs[i].speaker \in DOMAIN mm
        THEN [segs[i] EXCEPT !.speaker = mm[segs[i].speaker]]
        ELSE segs[i]]

Relabel(segs, mm) ==
    [i \in DOMAIN segs |->
        IF segs[i].speaker \in DOMAIN mm
        THEN LET new_speaker == mm[segs[i].speaker]
             IN [segs[i] EXCEPT
                    !.speaker = new_speaker,
                    !.words = [k \in DOMAIN segs[i].words |->
                                [segs[i].words[k] EXCEPT !.speaker = new_speaker]]]
        ELSE segs[i]]

\* Mutant of Consolidate: the words of the later segment come first.
RECURSIVE ConsolidateSwapped(_, _, _)
ConsolidateSwapped(segs, i, consolidated) ==
    IF i > Len(segs) THEN consolidated
    ELSE LET seg == segs[i]
             n == Len(consolidated)
         IN IF consolidated # <<>> /\ consolidated[n].speaker = seg.speaker
            THEN LET prev == consolidated[n]
                     combined_words == seg.words \o prev.words
                 IN ConsolidateSwapped(segs, i + 1,
                        [consolidated EXCEPT ![n] =
                            TranscriptSegment(prev.speaker, combined_words,
                                              prev.start, seg.end)])
            ELSE ConsolidateSwapped(segs, i + 1, Append(consolidated, seg))

RECURSIVE Consolidate(_, _, _)
Consolidate(segs, i, consolidated) ==
    IF i > Len(segs) THEN consolidated
    ELSE LET seg == segs[i]
             n == Len(consolidated)
         IN IF consolidated # <<>> /\ consolidated[n].speaker = seg.speaker
            THEN LET prev == consolidated[n]
                     combined_words == prev.words \o seg.words
                 IN Consolidate(segs, i + 1,
                        [consolidated EXCEPT ![n] =
                            TranscriptSegment(prev.speaker, combined_words,
                                              prev.start, seg.end)])
            ELSE Consolidate(segs, i + 1, Append(consolidated, seg))

NoMap == [sp \in {} |-> sp]

\* the call: the value returned and the local merge_map (empty when the
\* function returns before building it)
SimilarRun(segs, mss, ratio, order) ==
    LET unchanged == [result |-> segs, merge_map |-> NoMap]
    IN IF segs = <<>> THEN unchanged
       ELSE IF Cardinality(SpeakersOf(segs)) < 2 THEN unchanged
       ELSE IF total_duration(segs) = 0 THEN unchanged
       ELSE LET stats == speaker_stats(segs)
                minor == minor_speakers(segs, mss, ratio)
                dominant == SpeakersOf(segs) \ minor
            IN IF minor = {} \/ dominant = {} THEN unchanged
               ELSE LET mm == [m \in minor |->
                                 MergeTarget(stats, m, dominant, order)]
                    IN [result |-> Consolidate(Relabel(segs, mm), 1, <<>>),
                        merge_map |-> mm]

merge_similar_speakers(segs, mss, ratio, order) ==
    SimilarRun(segs, mss, ratio, order).result

----------------------------------------------------------------------------
(* Inputs *)

DefaultMinDuration == [num |-> 3, den |-> 2]

DefaultMinSpeakerSegments == 3

DefaultMinSpeakerTimeRatio == [num |-> 1, den |-> 20]

MinDurationChoices == {DefaultMinDuration, [num |-> 1, den |-> 1]}

\* <<min_speaker_segments, min_speaker_time_ratio>>: thresholds that lists
\* of a few segments can meet, one deciding by the number of segments and
\* one by the share of time
ThresholdChoices ==
    {<<2, DefaultMinSpeakerTimeRatio>>,
     <<1, [num |-> 1, den |-> 3]>>}

\* Speaker labels are opaque: a labelling is taken up to renaming, the
\* labels numbered in the order of their first occurrence.
Labellings(n, k) ==
    {f \in [1..n -> 1..k] :
        \A i \in 1..n : \A v \in 1..(f[i] - 1) : \E j \in 1..(i - 1) : f[j] = v}

Intervals == {iv \in (0..MaxTime) \X (0..MaxTime) : iv[1] <= iv[2]}

\* Hand-built segment lists, as the tests build them: any order in time,
\* each segment holding one word labelled with the segment's speaker.
SegmentList(lab, iv) ==
    [i \in DOMAIN lab |->
        TranscriptSegment(Labels[lab[i]],
            <<[Word(i, iv[i][1], iv[i][2]) EXCEPT !.speaker = Labels[lab[i]]]>>,
            iv[i][1], iv[i][2])]

SegmentInput(segs) ==
    \E n \in 0..MaxSegs :
        \E lab \in Labellings(n, Len(Labels)), iv \in [1..n -> Intervals] :
            segs = SegmentList(lab, iv)

RECURSIVE StartOf(_, _)
StartOf(durs, i) == IF i = 1 THEN 0 ELSE StartOf(durs, i - 1) + durs[i - 1]

\* Segment lists in temporal order, one segment after the other from time
\* 0: what the grouper returns for gapless words, any labelling, one word
\* per segment.
RunList(lab, d) ==
    [i \in DOMAIN lab |->
        TranscriptSegment(Labels[lab[i]],
            <<[Word(i, StartOf(d, i), StartOf(d, i) + d[i])
                  EXCEPT !.speaker = Labels[lab[i]]]>>,
            StartOf(d, i), StartOf(d, i) + d[i])]

\* empty, shorter than either min_duration choice, equal to one, longer
RunDurations == {0, 1, 2}

RunInput(segs) ==
    \E n \in (MaxSegs + 1)..MaxRun :
        \E lab \in Labellings(n, Len(Labels)), d \in [1..n -> RunDurations] :
            segs = RunList(lab, d)

WordDurations == {1, 2}

\* Transcribed words: one after the other from time 0, speaker unset.
WordList(d) ==
    [i \in DOMAIN d |-> Word(i, StartOf(d, i), StartOf(d, i) + d[i])]

WordInput(ws) ==
    \E n \in 0..MaxWords : \E d \in [1..n -> WordDurations] : ws = WordList(d)

\* Diarization text: well-formed SPEAKER lines of two speakers, one turn
\* after the other.
RttmText(lab, d) ==
    [i \in DOMAIN lab |->
        [marker |-> TRUE, nparts |-> 10, numeric |-> TRUE,
         start |-> StartOf(d, i), duration |-> d[i],
         speaker |-> Labels[lab[i]]]]

\* a line that does not start with SPEAKER (a comment, a blank line)
OtherLine ==
    [marker |-> FALSE, nparts |-> 3, numeric |-> TRUE, start |-> 0,
     duration |-> 1, speaker |-> Labels[1]]

\* a SPEAKER line cut short after its duration field
ShortLine ==
    [marker |-> TRUE, nparts |-> 5, numeric |-> TRUE, start |-> 0,
     duration |-> 1, speaker |-> Labels[1]]

\* Diarization text: the turns of a recording, or a text with no usable
\* line at all.
RttmInput(content) ==
    \/ \E n \in 0..MaxTurns :
        \E lab \in Labellings(n, Len(Labels) - 1), d \in [1..n -> WordDurations] :
            content = RttmText(lab, d)
    \/ \E n \in 1..MaxTurns : content \in [1..n -> {OtherLine, ShortLine}]

----------------------------------------------------------------------------
(* The caller of align_transcription_with_diarization *)

Idle ==
    /\ rttm_content = <<>>
    /\ annotation = <<>>
    /\ job = <<>>
    /\ words = <<>>
    /\ speaker_segments = <<>>
    /\ grouped = <<>>
    /\ micro = <<>>

NoMerge ==
    /\ segments = <<>>
    /\ result = <<>>
    /\ merge_map = NoMap

NoLoop ==
    /\ merged = <<>>
    /\ changed = FALSE
    /\ passes = 0

Init ==
    /\ pc = "align"
    /\ RttmInput(rttm_content)
    /\ annotation = <<>>
    /\ job = <<>>
    /\ WordInput(words)
    /\ speaker_segments = <<>>
    /\ grouped = <<>>
    /\ micro = <<>>
    /\ NoMerge
    /\ NoLoop
    /\ min_duration = DefaultMinDuration
    /\ min_speaker_segments = DefaultMinSpeakerSegments
    /\ min_speaker_time_ratio = DefaultMinSpeakerTimeRatio

\* align_transcription_with_diarization(words, rttm_content): the five
\* steps, each step's value kept as it was handed to the next
Align ==
    /\ pc = "align"
    /\ speaker_segments' = parse_rttm(rttm_content)
    /\ words' = assign_speakers_to_words(words, speaker_segments')
    /\ grouped' = group_words_by_speaker(words')
    /\ micro' = merge_micro_segments(grouped', min_duration)
    /\ segments' = micro'
    /\ \E order \in IterationOrders(micro', min_speaker_segments,
                                      min_speaker_time_ratio) :
        LET run == SimilarRun(micro', min_speaker_segments,
                              min_speaker_time_ratio, order)
        IN /\ result' = run.result
           /\ merge_map' = run.merge_map
    /\ pc' = "aligned"
    /\ UNCHANGED <<rttm_content, annotation, min_duration, min_speaker_segments,
                   min_speaker_time_ratio, merged, changed, passes, job>>

Next == Align

Spec == Init /\ [][Next]_vars

----------------------------------------------------------------------------
(* A caller of merge_similar_speakers: once, then again on what it got *)

InitSimilar ==
    /\ pc = "similar"
    /\ Idle
    /\ SegmentInput(segments)
    /\ result = <<>>
    /\ merge_map = NoMap
    /\ NoLoop
    /\ min_duration = DefaultMinDuration
    /\ \E th \in ThresholdChoices :
        /\ min_speaker_segments = th[1]
        /\ min_speaker_time_ratio = th[2]

CallSimilar ==
    /\ pc = "similar"
    /\ \E order \in IterationOrders(segments, min_speaker_segments,
                                      min_speaker_time_ratio) :
        LET run == SimilarRun(segments, min_speaker_segments,
                              min_speaker_time_ratio, order)
        IN /\ result' = run.result
           /\ merge_map' = run.merge_map
    /\ pc' = "similar_once"
    /\ UNCHANGED <<rttm_content, annotation, words, speaker_segments, grouped, micro,
                   segments, min_duration, min_speaker_segments,
                   min_speaker_time_ratio, merged, changed, passes, job>>

CallSimilarAgain ==
    /\ pc = "similar_once"
    /\ segments' = result
    /\ \E order \in IterationOrders(result, min_speaker_segments,
                                      min_speaker_time_ratio) :
        LET run == SimilarRun(result, min_speaker_segments,
                              min_speaker_time_ratio, order)
        IN /\ result' = run.result
           /\ merge_map' = run.merge_map
    /\ pc' = "similar_twice"
    /\ UNCHANGED <<rttm_content, annotation, words, speaker_segments, grouped, micro,
                   min_duration, min_speaker_segments,
                   min_speaker_time_ratio, merged, changed, passes, job>>

NextSimilar == CallSimilar \/ CallSimilarAgain

SpecSimilar == InitSimilar /\ [][NextSimilar]_vars

----------------------------------------------------------------------------
(* A caller of merge_micro_segments, one pass of its loop at a time *)

InitMicro ==
    /\ pc = "micro"
    /\ Idle
    /\ (SegmentInput(segments) \/ RunInput(segments))
    /\ result = <<>>
    /\ merge_map = NoMap
    /\ NoLoop
    /\ min_duration \in MinDurationChoices
    /\ min_speaker_segments = DefaultMinSpeakerSegments
    /\ min_speaker_time_ratio = DefaultMinSpeakerTimeRatio

\* if len(segments) <= 2: return segments
MicroShort ==
    /\ pc = "micro"
    /\ TooFewToMerge(segments)
    /\ result' = segments
    /\ pc' = "micro_done"
    /\ UNCHANGED <<rttm_content, annotation, words, speaker_segments, grouped, micro,
                   segments, merge_map, min_duration, min_speaker_segments,
                   min_speaker_time_ratio, merged, changed, passes, job>>

\* merged = list(segments); changed = True
MicroEnter ==
    /\ pc = "micro"
    /\ ~TooFewToMerge(segments)
    /\ merged' = segments
    /\ changed' = TRUE
    /\ passes' = 0
    /\ pc' = "micro_loop"
    /\ UNCHANGED <<rttm_content, annotation, words, speaker_segments, grouped, micro,
                   segments, result, merge_map, min_duration,
                   min_speaker_segments, min_speaker_time_ratio, job>>

\* one iteration of `while changed`
MicroIterate ==
    /\ pc = "micro_loop"
    /\ changed
    /\ LET p == MicroPass(merged, min_duration)
       IN /\ merged' = p.merged
          /\ changed' = p.changed
    /\ passes' = passes + 1
    /\ UNCHANGED <<pc, rttm_content, annotation, words, speaker_segments, grouped, micro,
                   segments, result, merge_map, min_duration,
                   min_speaker_segments, min_speaker_time_ratio, job>>

\* return merged
MicroReturn ==
    /\ pc = "micro_loop"
    /\ ~changed
    /\ result' = merged
    /\ pc' = "micro_done"
    /\ UNCHANGED <<rttm_content, annotation, words, speaker_segments, grouped, micro,
                   segments, merge_map, min_duration, min_speaker_segments,
                   min_speaker_time_ratio, merged, changed, passes, job>>

\* the caller hands the returned list to merge_micro_segments again, with
\* the same min_duration; micro holds what the second call returns
MicroAgain ==
    /\ pc = "micro_done"
    /\ micro' = merge_micro_segments(result, min_duration)
    /\ pc' = "micro_twice"
    /\ UNCHANGED <<rttm_content, annotation, words, speaker_segments, grouped,
                   segments, result, merge_map, min_duration,
                   min_speaker_segments, min_speaker_time_ratio, merged,
                   changed, passes, job>>

NextMicro ==
    MicroShort \/ MicroEnter \/ MicroIterate \/ MicroReturn \/ MicroAgain

SpecMicro == InitMicro /\ [][NextMicro]_vars

----------------------------------------------------------------------------
(* A caller of assign_speakers_to_words: one word, a hand-built list of    *)
(* speaker segments in any order, with gaps, overlaps and empty segments   *)

AssignIntervals ==
    {iv \in (0..MaxAssignTime) \X (0..MaxAssignTime) : iv[1] <= iv[2]}

DiarList(lab, iv) ==
    [i \in DOMAIN lab |-> SpeakerSegment(Labels[lab[i]], iv[i][1], iv[i][2])]

DiarInput(segs) ==
    \E n \in 0..MaxDiar :
        \E lab \in Labellings(n, Len(Labels) - 1), iv \in [1..n -> AssignIntervals] :
            segs = DiarList(lab, iv)

\* the word starts in the middle of the time range
WordStart == MaxAssignTime \div 2

InitAssign ==
    /\ pc = "assign"
    /\ rttm_content = <<>>
    /\ annotation = <<>>
    /\ job = <<>>
    /\ DiarInput(speaker_segments)
    /\ \E len \in 0..(MaxAssignTime - WordStart) :
          words = <<Word(1, WordStart, WordStart + len)>>
    /\ grouped = <<>>
    /\ micro = <<>>
    /\ NoMerge
    /\ NoLoop
    /\ min_duration = DefaultMinDuration
    /\ min_speaker_segments = DefaultMinSpeakerSegments
    /\ min_speaker_time_ratio = DefaultMinSpeakerTimeRatio

CallAssign ==
    /\ pc = "assign"
    /\ words' = assign_speakers_to_words(words, speaker_segments)
    /\ pc' = "assigned"
    /\ UNCHANGED <<rttm_content, annotation, speaker_segments, grouped, micro,
                   segments, result, merge_map, min_duration,
                   min_speaker_segments, min_speaker_time_ratio, merged,
                   changed, passes, job>>

\* segment.overlaps_with(word) and segment.overlap_duration(word) for each
\* segment of the list in turn; result holds the pairs of values returned
CallOverlap ==
    /\ pc = "assign"
    /\ result' = [i \in DOMAIN speaker_segments |->
                    [overlaps |-> overlaps_with(speaker_segments[i], words[1]),
                     duration |-> overlap_duration(speaker_segments[i],
                                                   words[1])]]
    /\ pc' = "overlap_checked"
    /\ UNCHANGED <<rttm_content, annotation, words, speaker_segments, grouped,
                   micro, segments, merge_map, min_duration,
                   min_speaker_segments, min_speaker_time_ratio, merged,
                   changed, passes, job>>

NextAssign == CallAssign \/ CallOverlap

SpecAssign == InitAssign /\ [][NextAssign]_vars

----------------------------------------------------------------------------
(* A caller of group_words_by_speaker: words one after the other, each     *)
(* with a speaker or none                                                  *)

SpeakerValues == {None} \cup {Labels[i] : i \in 1..(Len(Labels) - 1)}

LabelledWordInput(ws) ==
    \E n \in 0..MaxWords :
        \E d \in [1..n -> WordDurations], sp \in [1..n -> SpeakerValues] :
            ws = [i \in 1..n |-> [WordList(d)[i] EXCEPT !.speaker = sp[i]]]

InitGroup ==
    /\ pc = "group"
    /\ rttm_content = <<>>
    /\ annotation = <<>>
    /\ job = <<>>
    /\ speaker_segments = <<>>
    /\ LabelledWordInput(words)
    /\ grouped = <<>>
    /\ micro = <<>>
    /\ NoMerge
    /\ NoLoop
    /\ min_duration = DefaultMinDuration
    /\ min_speaker_segments = DefaultMinSpeakerSegments
    /\ min_speaker_time_ratio = DefaultMinSpeakerTimeRatio

CallGroup ==
    /\ pc = "group"
    /\ grouped' = group_words_by_speaker(words)
    /\ pc' = "grouped"
    /\ UNCHANGED <<rttm_content, annotation, words, speaker_segments, micro,
                   segments, result, merge_map, min_duration,
                   min_speaker_segments, min_speaker_time_ratio, merged,
                   changed, passes, job>>

NextGroup == CallGroup

SpecGroup == InitGroup /\ [][NextGroup]_vars

----------------------------------------------------------------------------
(* A caller of the two parsers: a diarization text whose lines come in any *)
(* order and kind, or an annotation whose tracks come in any order         *)

\* SPEAKER <file> 1 <start> <duration> <NA> <NA> <speaker> <NA> <NA>
FullLines ==
    {[marker |-> TRUE, nparts |-> 10, numeric |-> TRUE, start |-> st,
      duration |-> d, speaker |-> Labels[l]] :
        st \in 0..MaxStart, d \in WordDurations, l \in 1..(Len(Labels) - 1)}

\* a SPEAKER line that ends with the speaker field
EightFieldLine ==
    [marker |-> TRUE, nparts |-> 8, numeric |-> TRUE, start |-> 0,
     duration |-> 1, speaker |-> Labels[Len(Labels)]]

\* a SPEAKER line of ten fields whose start field is not a number (its
\* start and duration here stand for no value read from the line)
BadNumberLine ==
    [marker |-> TRUE, nparts |-> 10, numeric |-> FALSE, start |-> 0,
     duration |-> 1, speaker |-> Labels[1]]

LineKinds ==
    FullLines \cup {EightFieldLine, OtherLine, ShortLine, BadNumberLine}

Tracks ==
    {[start |-> st, end |-> st + d, speaker |-> Labels[l]] :
        st \in 0..MaxStart, d \in WordDurations, l \in 1..(Len(Labels) - 1)}

InitParse ==
    /\ \/ /\ pc = "parse_rttm"
          /\ \E n \in 0..MaxLines : rttm_content \in [1..n -> LineKinds]
          /\ annotation = <<>>
       \/ /\ pc = "parse_pyannote"
          /\ rttm_content = <<>>
          /\ \E n \in 0..MaxLines : annotation \in [1..n -> Tracks]
    /\ job = <<>>
    /\ words = <<>>
    /\ speaker_segments = <<>>
    /\ grouped = <<>>
    /\ micro = <<>>
    /\ NoMerge
    /\ NoLoop
    /\ min_duration = DefaultMinDuration
    /\ min_speaker_segments = DefaultMinSpeakerSegments
    /\ min_speaker_time_ratio = DefaultMinSpeakerTimeRatio

\* parse_rttm(rttm_content): the list it returns, or the ValueError that
\* leaves the caller without a list
CallParseRttm ==
    /\ pc = "parse_rttm"
    /\ IF parse_rttm_raises(rttm_content)
       THEN /\ speaker_segments' = speaker_segments
            /\ pc' = "raised_rttm"
       ELSE /\ speaker_segments' = parse_rttm(rttm_content)
            /\ pc' = "parsed_rttm"
    /\ UNCHANGED <<rttm_content, annotation, words, grouped, micro,
                   segments, result, merge_map, min_duration,
                   min_speaker_segments, min_speaker_time_ratio, merged,
                   changed, passes, job>>

CallParsePyannote ==
    /\ pc = "parse_pyannote"
    /\ speaker_segments' = parse_pyannote_annotation(annotation)
    /\ pc' = "parsed_pyannote"
    /\ UNCHANGED <<rttm_content, annotation, words, grouped, micro,
                   segments, result, merge_map, min_duration,
                   min_speaker_segments, min_speaker_time_ratio, merged,
                   changed, passes, job>>

NextParse == CallParseRttm \/ CallParsePyannote

SpecParse == InitParse /\ [][NextParse]_vars

----------------------------------------------------------------------------
(* Two invocations of the pipeline, as from two threads: invocation 1      *)
(* through align_transcription_with_diarization, invocation 2 through      *)
(* align_with_pyannote, each with its own word list and diarization.  An   *)
(* invocation is [entry, pc, rttm_content, annotation, words,              *)
(* speaker_segments, transcript_segments], words being the list as         *)
(* assign_speakers_to_words returns it; a step is one stage of one         *)
(* invocation.                                                             *)

Jobs == {1, 2}

\* the other speaker of a two-speaker diarization
OtherLabel(sp) == IF sp = Labels[1] THEN Labels[2] ELSE Labels[1]

\* the turns of an RTTM text as the tracks of an annotation, last turn
\* first, the two labels exchanged when swap is set
TracksOf(content, swap) ==
    [i \in DOMAIN content |->
        LET line == content[Len(content) + 1 - i]
        IN [start |-> line.start, end |-> line.start + line.duration,
            speaker |-> IF swap THEN OtherLabel(line.speaker) ELSE line.speaker]]

NewJob(entry, content, tracks, ws) ==
    [entry |-> entry, pc |-> "parse", rttm_content |-> content,
     annotation |-> tracks, words |-> ws, speaker_segments |-> <<>>,
     transcript_segments |-> <<>>]

\* words of one duration, turns of one duration; the second invocation
\* gets words at the same times and the same turns or the turns of the
\* other speaker
JobsInput(jb) ==
    \E nw \in 0..MaxJobWords, nt \in 0..MaxJobTurns :
        \E lab \in Labellings(nt, Len(Labels) - 1),
           dw \in WordDurations, dt \in WordDurations, swap \in BOOLEAN :
            LET content == RttmText(lab, [i \in 1..nt |-> dt])
                ws == WordList([i \in 1..nw |-> dw])
            IN jb = [i \in Jobs |->
                        IF i = 1 THEN NewJob("rttm", content, <<>>, ws)
                        ELSE NewJob("pyannote", <<>>,
                                    TracksOf(content, swap), ws)]

InitJobs ==
    /\ pc = "jobs"
    /\ rttm_content = <<>>
    /\ annotation = <<>>
    /\ words = <<>>
    /\ speaker_segments = <<>>
    /\ grouped = <<>>
    /\ micro = <<>>
    /\ NoMerge
    /\ NoLoop
    /\ min_duration = DefaultMinDuration
    /\ min_speaker_segments = DefaultMinSpeakerSegments
    /\ min_speaker_time_ratio = DefaultMinSpeakerTimeRatio
    /\ JobsInput(job)

NotJob ==
    UNCHANGED <<pc, rttm_content, annotation, words, speaker_segments, grouped,
                micro, segments, result, merge_map, min_duration,
                min_speaker_segments, min_speaker_time_ratio, merged, changed,
                passes>>

\* Mutant of SegmentsSeenBy: the parsed segments are kept in one place
\* for all invocations.
SegmentsOfFirstJob(i) == job[1].speaker_segments

\* the local speaker_segments of invocation i
SegmentsSeenBy(i) == job[i].speaker_segments

\* Step 1: parse_rttm(rttm_content) or parse_pyannote_annotation(annotation)
JobParse(i) ==
    /\ job[i].pc = "parse"
    /\ job' = [job EXCEPT
                 ![i].speaker_segments =
                     IF job[i].entry = "rttm"
                     THEN parse_rttm(job[i].rttm_content)
                     ELSE parse_pyannote_annotation(job[i].annotation),
                 ![i].pc = "assign"]
    /\ NotJob

\* Step 2: assign_speakers_to_words(words, speaker_segments)
JobAssign(i) ==
    /\ job[i].pc = "assign"
    /\ job' = [job EXCEPT
                 ![i].words = assign_speakers_to_words(@, SegmentsSeenBy(i)),
                 ![i].pc = "group"]
    /\ NotJob

\* Step 3: group_words_by_speaker(words_with_speakers)
JobGroup(i) ==
    /\ job[i].pc = "group"
    /\ job' = [job EXCEPT
                 ![i].transcript_segments = group_words_by_speaker(job[i].words),
                 ![i].pc = "micro"]
    /\ NotJob

\* Mutant of MicroStage: align_with_pyannote goes without the stage.
MicroStageNotForPyannote(j) ==
    IF j.entry = "pyannote" THEN j.transcript_segments
    ELSE merge_micro_segments(j.transcript_segments, DefaultMinDuration)

\* merge_micro_segments(transcript_segments), min_duration left to default
MicroStage(j) ==
    merge_micro_segments(j.transcript_segments, DefaultMinDuration)

\* Step 4
JobMicro(i) ==
    /\ job[i].pc = "micro"
    /\ job' = [job EXCEPT
                 ![i].transcript_segments = MicroStage(job[i]),
                 ![i].pc = "similar"]
    /\ NotJob

\* Step 5: merge_similar_speakers(transcript_segments), thresholds left
\* to default
JobSimilar(i) ==
    /\ job[i].pc = "similar"
    /\ \E order \in IterationOrders(job[i].transcript_segments,
                                      DefaultMinSpeakerSegments,
                                      DefaultMinSpeakerTimeRatio) :
          job' = [job EXCEPT
                    ![i].transcript_segments =
                        merge_similar_speakers(@, DefaultMinSpeakerSegments,
                                               DefaultMinSpeakerTimeRatio, order),
                    ![i].pc = "done"]
    /\ NotJob

NextJobs ==
    \E i \in Jobs :
        \/ JobParse(i)
        \/ JobAssign(i)
        \/ JobGroup(i)
        \/ JobMicro(i)
        \/ JobSimilar(i)

SpecJobs == InitJobs /\ [][NextJobs]_vars

----------------------------------------------------------------------------
(* Properties *)

Called == pc \in {"similar_once", "similar_twice"}

\* C1: merge_similar_speakers is idempotent: with the same thresholds, the
\* second call, on the list the first call returned, returns that list
\* (same segments, words, boundaries and labels).
C1_Idempotent ==
    pc = "similar_twice" => result = segments


NoAdjacentSame(segs) ==
    \A i \in 1..(Len(segs) - 1) : segs[i].speaker # segs[i + 1].speaker

\* C2: after align_transcription_with_diarization, the list each stage
\* handed on (grouper, micro-segment merger, minor-speaker consolidator)
\* holds no two adjacent segments with the same speaker, None included.
C2_NoAdjacentSameSpeaker ==
    pc = "aligned" =>
        /\ NoAdjacentSame(grouped)
        /\ NoAdjacentSame(micro)
        /\ NoAdjacentSame(result)

\* the merger absorbed a segment and still returned several segments
C2_Witness ==
    /\ pc = "aligned"
    /\ Len(micro) < Len(grouped)
    /\ Len(micro) >= 2
    /\ Len(result) >= 2

WordsShareSpeaker(segs) ==
    \A i \in DOMAIN segs : \A k \in DOMAIN segs[i].words :
        segs[i].words[k].speaker = segs[i].speaker

\* C3: in every segment returned by align_transcription_with_diarization,
\* every word's speaker equals the segment's speaker.
C3_WordsShareSegmentSpeaker ==
    pc = "aligned" => WordsShareSpeaker(result)

\* the words of a segment list, in order, each as (text, start, end)
RECURSIVE WordsIn(_)
WordsIn(segs) ==
    IF segs = <<>> THEN <<>>
    ELSE [k \in DOMAIN Head(segs).words |->
            <<Head(segs).words[k].text, Head(segs).words[k].start,
              Head(segs).words[k].end>>] \o WordsIn(Tail(segs))

\* C4: no stage loses, duplicates or reorders words: the word lists of each
\* stage's output, concatenated, are the words of its input in order.
C4_WordsPreserved ==
    pc = "aligned" =>
        /\ WordsIn(grouped) = [k \in DOMAIN words |->
                                 <<words[k].text, words[k].start, words[k].end>>]
        /\ WordsIn(micro) = WordsIn(grouped)
        /\ WordsIn(result) = WordsIn(micro)

\* the consolidator combined segments of a list of several words
C4_Witness ==
    /\ pc = "aligned"
    /\ Len(words) >= 3
    /\ Len(result) < Len(micro)


\* The classification of speakers as the specification states it, read off
\* a segment list.
CountOf(segs, sp) == Cardinality({i \in DOMAIN segs : segs[i].speaker = sp})

RECURSIVE DurationOf(_, _)
DurationOf(segs, S) ==
    IF segs = <<>> THEN 0
    ELSE (IF Head(segs).speaker \in S
          THEN Head(segs).end - Head(segs).start ELSE 0)
         + DurationOf(Tail(segs), S)

TotalOf(segs) == DurationOf(segs, SpeakersOf(segs))

\* part / total < ratio, for total # 0
ShareBelow(part, total, ratio) ==
    LET sign == IF total > 0 THEN 1 ELSE -1
    IN sign * part * ratio.den < sign * ratio.num * total

StatedMinor(segs) ==
    LET total == TotalOf(segs)
    IN {sp \in SpeakersOf(segs) :
          \/ CountOf(segs, sp) < min_speaker_segments
          \/ ShareBelow(DurationOf(segs, {sp}), total, min_speaker_time_ratio)}

StatedDominant(segs) == SpeakersOf(segs) \ StatedMinor(segs)

EarliestStart(segs, sp) ==
    SetMin({segs[i].start : i \in {k \in DOMAIN segs : segs[k].speaker = sp}})

LatestEnd(segs, sp) ==
    SetMax({segs[i].end : i \in {k \in DOMAIN segs : segs[k].speaker = sp}})

StatedGap(segs, m, d) ==
    Max2(0, Max2(EarliestStart(segs, m) - LatestEnd(segs, d),
                 EarliestStart(segs, d) - LatestEnd(segs, m)))

\* the call found a minor and a dominant speaker
FoundBoth ==
    /\ Called
    /\ TotalOf(segments) # 0
    /\ StatedMinor(segments) # {}
    /\ StatedDominant(segments) # {}

\* C5: when merge_similar_speakers finds a minor and a dominant speaker and
\* each input segment's words carry the segment's label, the speakers of the
\* output are exactly the dominant ones, no word keeps a minor label, and
\* every word carries the label of the output segment holding it.
C5_NoMinorLabelLeft ==
    LET minor == StatedMinor(segments)
        dominant == SpeakersOf(segments) \ minor
    IN (/\ Called
        /\ TotalOf(segments) # 0
        /\ minor # {}
        /\ dominant # {}
        /\ WordsShareSpeaker(segments)) =>
            /\ SpeakersOf(result) = dominant
            /\ WordsShareSpeaker(result)
            /\ \A i \in DOMAIN result : \A k \in DOMAIN result[i].words :
                  result[i].words[k].speaker \notin minor

\* a first call that relabelled a minor speaker of a three-speaker list
C5_Witness ==
    /\ pc = "similar_once"
    /\ FoundBoth
    /\ WordsShareSpeaker(segments)
    /\ Cardinality(SpeakersOf(segments)) = 3
    /\ Len(result) < Len(segments)

\* the speaker of the output segment that holds input segment i's words
OutputSpeakerOf(i) ==
    LET j == CHOOSE j \in DOMAIN result :
                \E k \in DOMAIN result[j].words :
                    result[j].words[k].text = segments[i].words[1].text
    IN result[j].speaker

\* C6: each minor speaker is relabelled to a dominant speaker with the
\* least gap between their windows [earliest start, latest end] of the
\* input, and among the dominant speakers at that gap to one with the
\* greatest total duration.
C6_NearestThenLongest ==
    LET minor == StatedMinor(segments)
        dominant == SpeakersOf(segments) \ minor
    IN (/\ Called
        /\ TotalOf(segments) # 0
        /\ minor # {}
        /\ dominant # {}) =>
            /\ DOMAIN merge_map = minor
            /\ \A m \in minor :
                LET t == merge_map[m]
                    gap_t == StatedGap(segments, m, t)
                IN /\ t \in dominant
                   /\ \A d \in dominant \ {t} :
                        LET gap_d == StatedGap(segments, m, d)
                        IN /\ gap_t <= gap_d
                           /\ gap_d = gap_t
                                => DurationOf(segments, {t})
                                      >= DurationOf(segments, {d})
            /\ \A i \in DOMAIN segments :
                segments[i].speaker \in minor
                    => OutputSpeakerOf(i) = merge_map[segments[i].speaker]

\* two dominant speakers tie on the gap to a minor speaker, and the one
\* with the greater total duration is the target
C6_Witness ==
    /\ FoundBoth
    /\ \E m \in StatedMinor(segments) : \E d, e \in StatedDominant(segments) :
        /\ StatedGap(segments, m, d) = StatedGap(segments, m, e)
        /\ DurationOf(segments, {d}) > DurationOf(segments, {e})
        /\ merge_map[m] = d

\* C7: merge_similar_speakers returns its argument as it is when the
\* argument has fewer than 2 speakers, or zero total duration, or no minor
\* speaker, or no dominant speaker.
C7_UnchangedWithoutMerge ==
    LET minor == StatedMinor(segments)
        dominant == SpeakersOf(segments) \ minor
    IN (/\ Called
        /\ \/ Cardinality(SpeakersOf(segments)) < 2
           \/ TotalOf(segments) = 0
           \/ minor = {}
           \/ dominant = {}) =>
            /\ result = segments
            /\ merge_map = NoMap

\* a first call on two or more speakers, none of them minor
C7_Witness ==
    /\ pc = "similar_once"
    /\ Cardinality(SpeakersOf(segments)) >= 2
    /\ TotalOf(segments) # 0
    /\ StatedMinor(segments) = {}
    /\ result = segments


\* duration < min_duration, as the specification states it
IsShort(seg) == (seg.end - seg.start) * min_duration.den < min_duration.num

\* C8: on [X][Y][X] with the middle segment shorter than min_duration,
\* merge_micro_segments returns one segment: speaker X, the first segment's
\* start, the third segment's end, the words of all three in order.
C8_SandwichCollapses ==
    (/\ pc = "micro_done"
     /\ Len(segments) = 3
     /\ segments[1].speaker = segments[3].speaker
     /\ IsShort(segments[2])) =>
        result = <<TranscriptSegment(segments[1].speaker,
                       segments[1].words \o segments[2].words \o segments[3].words,
                       segments[1].start, segments[3].end)>>

\* a short segment of another speaker between two segments of one speaker
C8_Witness ==
    /\ pc = "micro_done"
    /\ Len(segments) = 3
    /\ segments[1].speaker = segments[3].speaker
    /\ segments[2].speaker # segments[1].speaker
    /\ IsShort(segments[2])
    /\ Len(result) = 1

Sandwiched(segs, i) ==
    /\ 1 < i
    /\ i < Len(segs)
    /\ IsShort(segs[i])
    /\ segs[i - 1].speaker = segs[i + 1].speaker

\* C9: a list of more than 2 segments with no two adjacent segments of one
\* speaker and no short interior segment between two segments of one
\* speaker is returned by merge_micro_segments as it is.
C9_UnchangedWithoutSandwich ==
    (/\ pc = "micro_done"
     /\ Len(segments) > 2
     /\ NoAdjacentSame(segments)
     /\ \A i \in DOMAIN segments : ~Sandwiched(segments, i)) =>
        result = segments

\* an interior segment of duration exactly min_duration between two
\* segments of one speaker, and a short one between different speakers
C9_Witness ==
    /\ pc = "micro_done"
    /\ Len(segments) > 2
    /\ NoAdjacentSame(segments)
    /\ \A i \in DOMAIN segments : ~Sandwiched(segments, i)
    /\ \E i \in 2..(Len(segments) - 1) :
        /\ (segments[i].end - segments[i].start) * min_duration.den
              = min_duration.num
        /\ segments[i - 1].speaker = segments[i + 1].speaker
    /\ \E i \in 2..(Len(segments) - 1) :
        /\ IsShort(segments[i])
        /\ segments[i - 1].speaker # segments[i + 1].speaker
    /\ result = segments

\* C10: merge_micro_segments terminates: every pass of the loop that
\* records a change leaves strictly fewer segments than it started with,
\* and the loop never runs more than len(segments) passes (each step of the
\* loop is a pass or the return, so the bound on passes ends the loop).
C10_PassesShrinkAndEnd ==
    /\ [][(pc = "micro_loop" /\ passes' = passes + 1 /\ changed')
            => Len(merged') < Len(merged)]_vars
    /\ [](pc \in {"micro_loop", "micro_done"} => passes <= Len(segments))
    /\ [](pc = "micro_loop" /\ ~changed => passes >= 1)

\* the second pass of the loop recorded a change too
C10_Witness ==
    /\ pc = "micro_loop"
    /\ passes = 2
    /\ changed


\* Overlap and distance between a word and a speaker segment, as the
\* specification states them.
StatedOverlaps(seg, word) == word.start < seg.end /\ seg.start < word.end

StatedOverlap(seg, word) ==
    LET lo == IF seg.start >= word.start THEN seg.start ELSE word.start
        hi == IF seg.end <= word.end THEN seg.end ELSE word.end
    IN IF hi - lo > 0 THEN hi - lo ELSE 0

OverlappedBy(word) ==
    {i \in DOMAIN speaker_segments : StatedOverlaps(speaker_segments[i], word)}

\* C11: a word that overlaps two or more speaker segments gets the speaker
\* of a segment whose overlap duration is the greatest among all segments;
\* a word that overlaps exactly one segment gets that segment's speaker.
C11_GreatestOverlap ==
    pc = "assigned" =>
        LET word == words[1]
            ov == OverlappedBy(word)
        IN /\ Cardinality(ov) >= 2 =>
                \E i \in DOMAIN speaker_segments :
                    /\ speaker_segments[i].speaker = word.speaker
                    /\ \A j \in DOMAIN speaker_segments :
                          StatedOverlap(speaker_segments[i], word)
                              >= StatedOverlap(speaker_segments[j], word)
           /\ Cardinality(ov) = 1 =>
                \A i \in ov : speaker_segments[i].speaker = word.speaker

\* the second of two overlapping segments of different speakers has the
\* greater overlap and gives the word its speaker
C11_Witness ==
    /\ pc = "assigned"
    /\ Len(speaker_segments) = 2
    /\ OverlappedBy(words[1]) = {1, 2}
    /\ speaker_segments[1].speaker # speaker_segments[2].speaker
    /\ StatedOverlap(speaker_segments[2], words[1])
          > StatedOverlap(speaker_segments[1], words[1])
    /\ StatedOverlap(speaker_segments[1], words[1]) > 0
    /\ words[1].speaker = speaker_segments[2].speaker

\* the time between the word's interval and the segment's interval
StatedDistance(seg, word) ==
    IF seg.end <= word.start THEN word.start - seg.end
    ELSE IF seg.start >= word.end THEN seg.start - word.end
    ELSE 0

\* C12 as stated: a word that overlaps no speaker segment of a non-empty
\* list gets the speaker of a segment with the smallest time gap between
\* the word's interval and the segment's interval.
C12_ClosestByGap ==
    (/\ pc = "assigned"
     /\ speaker_segments # <<>>
     /\ OverlappedBy(words[1]) = {}) =>
        \E i \in DOMAIN speaker_segments :
            /\ speaker_segments[i].speaker = words[1].speaker
            /\ \A j \in DOMAIN speaker_segments :
                  StatedDistance(speaker_segments[i], words[1])
                      <= StatedDistance(speaker_segments[j], words[1])

\* min(|seg.start - word.start|, |seg.end - word.end|)
StatedBoundaryDistance(seg, word) ==
    LET ds == IF seg.start >= word.start THEN seg.start - word.start
                                         ELSE word.start - seg.start
        de == IF seg.end >= word.end THEN seg.end - word.end
                                     ELSE word.end - seg.end
    IN IF ds <= de THEN ds ELSE de

\* C12 as amended: a word that overlaps no speaker segment of a non-empty
\* list gets the speaker of a segment with the smallest value of
\* min(|seg.start - word.start|, |seg.end - word.end|).
C12_ClosestByBoundary ==
    (/\ pc = "assigned"
     /\ speaker_segments # <<>>
     /\ OverlappedBy(words[1]) = {}) =>
        \E i \in DOMAIN speaker_segments :
            /\ speaker_segments[i].speaker = words[1].speaker
            /\ \A j \in DOMAIN speaker_segments :
                  StatedBoundaryDistance(speaker_segments[i], words[1])
                      <= StatedBoundaryDistance(speaker_segments[j], words[1])

\* a word in a gap between two speakers: the segment with the smaller time
\* gap has the greater boundary distance, and the other gives the speaker
C12_Witness ==
    /\ pc = "assigned"
    /\ Len(speaker_segments) = 2
    /\ OverlappedBy(words[1]) = {}
    /\ speaker_segments[1].speaker # speaker_segments[2].speaker
    /\ StatedDistance(speaker_segments[1], words[1])
          < StatedDistance(speaker_segments[2], words[1])
    /\ StatedBoundaryDistance(speaker_segments[1], words[1])
          > StatedBoundaryDistance(speaker_segments[2], words[1])
    /\ words[1].speaker = speaker_segments[2].speaker


\* the word objects of a segment list, in order
RECURSIVE AllWords(_)
AllWords(segs) ==
    IF segs = <<>> THEN <<>> ELSE Head(segs).words \o AllWords(Tail(segs))

\* adjacent word pairs with different speakers
SpeakerChanges(ws) ==
    {i \in 1..(Len(ws) - 1) : ws[i].speaker # ws[i + 1].speaker}

\* C13: group_words_by_speaker returns, in order, the maximal runs of
\* consecutive words with equal speaker (None a value of its own): the
\* segments' words are the input words in order, each segment is non-empty
\* and of one speaker, adjacent segments differ in speaker, there are
\* 1 + (adjacent word pairs with different speakers) segments, and a
\* non-empty uniform list gives exactly one segment with all the words.
C13_MaximalRuns ==
    (pc = "grouped" /\ words # <<>>) =>
        /\ AllWords(grouped) = words
        /\ \A i \in DOMAIN grouped :
              /\ grouped[i].words # <<>>
              /\ \A k \in DOMAIN grouped[i].words :
                    grouped[i].words[k].speaker = grouped[i].speaker
        /\ \A i \in 1..(Len(grouped) - 1) :
              grouped[i].speaker # grouped[i + 1].speaker
        /\ Len(grouped) = 1 + Cardinality(SpeakerChanges(words))
        /\ SpeakerChanges(words) = {} =>
              /\ Len(grouped) = 1
              /\ grouped[1].words = words

\* words with no speaker between words of one speaker, and a run of
\* several words
C13_Witness ==
    /\ pc = "grouped"
    /\ Len(grouped) >= 3
    /\ \E i \in 2..(Len(grouped) - 1) :
          /\ grouped[i].speaker = None
          /\ grouped[i - 1].speaker = grouped[i + 1].speaker
    /\ \E i \in DOMAIN grouped : Len(grouped[i].words) >= 2


\* the words from..to of the pipeline's word list as speaker sp's segment
ExpectedSegment(sp, from, to) ==
    [speaker |-> sp,
     words |-> [k \in 1..(to - from + 1) |->
                  [text |-> words[from + k - 1].text,
                   start |-> words[from + k - 1].start,
                   end |-> words[from + k - 1].end,
                   speaker |-> sp]],
     start |-> words[from].start,
     end |-> words[to].end,
     text |-> [k \in 1..(to - from + 1) |-> words[from + k - 1].text]]

\* word i overlaps at least one speaker segment, and only segments of sp
OverlapsOnly(i, sp) ==
    /\ OverlappedBy(words[i]) # {}
    /\ \A j \in OverlappedBy(words[i]) : speaker_segments[j].speaker = sp

\* the diarization is segments of speaker a followed by segments of b
\* (so a is the first segment's speaker and b the last one's), the words
\* 1..m overlap only a's segments and the words after m only b's
TwoRuns(a, b, m) ==
    /\ a # b
    /\ m \in 1..(Len(words) - 1)
    /\ \E k \in 1..(Len(speaker_segments) - 1) :
          \A j \in DOMAIN speaker_segments :
              speaker_segments[j].speaker = (IF j <= k THEN a ELSE b)
    /\ \A i \in 1..m : OverlapsOnly(i, a)
    /\ \A i \in (m + 1)..Len(words) : OverlapsOnly(i, b)

\* C14: with the default thresholds, when the diarization has two speakers
\* one after the other and the words form two runs, the first overlapping
\* only the first speaker's segments and the second only the second's, the
\* pipeline returns exactly two segments in that order holding the two
\* runs, and neither merge stage alters what the grouper returned.
C14_TwoSpeakersTwoSegments ==
    (pc = "aligned" /\ Len(speaker_segments) >= 2) =>
        LET a == speaker_segments[1].speaker
            b == speaker_segments[Len(speaker_segments)].speaker
        IN \A m \in 1..(Len(words) - 1) :
            TwoRuns(a, b, m) =>
                /\ result = <<ExpectedSegment(a, 1, m),
                              ExpectedSegment(b, m + 1, Len(words))>>
                /\ micro = grouped
                /\ result = micro

\* two words for each of two speakers, each speaker with one or more turns
C14_Witness ==
    /\ pc = "aligned"
    /\ Len(words) >= 4
    /\ Len(speaker_segments) >= 3
    /\ \E a, b \in LabelSet : TwoRuns(a, b, 2)
    /\ Len(result) = 2


\* no line of the diarization text yields a segment: each is ignored (no
\* SPEAKER marker) or skipped (fewer than 8 fields)
NoUsableLine ==
    \A i \in DOMAIN rttm_content :
        ~rttm_content[i].marker \/ rttm_content[i].nparts < 8

\* C17: when the diarization text yields no speaker segment (empty, or
\* every line ignored or skipped) and there are words, all with unset
\* speaker, the pipeline leaves every word's speaker unset and returns one
\* segment with unset speaker holding all the words in order.
C17_NoDiarizationOneSegment ==
    (pc = "aligned" /\ NoUsableLine /\ words # <<>>) =>
        /\ speaker_segments = <<>>
        /\ \A i \in DOMAIN words : words[i].speaker = None
        /\ result = <<ExpectedSegment(None, 1, Len(words))>>

\* a text of comment lines and short SPEAKER lines, and several words
C17_Witness ==
    /\ pc = "aligned"
    /\ \E i \in DOMAIN rttm_content : ~rttm_content[i].marker
    /\ \E i \in DOMAIN rttm_content :
          rttm_content[i].marker /\ rttm_content[i].nparts < 8
    /\ NoUsableLine
    /\ Len(words) >= 3
    /\ Len(result) = 1

WellFormed(line) == line.marker /\ line.nparts >= 8 /\ line.numeric

\* the segment a well-formed line stands for: speaker = field 7,
\* start = field 3, end = start + duration (field 4)
StatedSegment(line) ==
    [speaker |-> line.speaker, start |-> line.start,
     end |-> line.start + line.duration]

\* how often value x occurs in sequence sq
Occurrences(sq, x) == Cardinality({i \in DOMAIN sq : sq[i] = x})

NonDecreasingStart(segs) ==
    \A i \in 1..(Len(segs) - 1) : segs[i].start <= segs[i + 1].start

\* segs holds one segment for each element of src that passes keep, and
\* nothing else; seg(x) is the segment element x stands for
OnePerSource(segs, src, keep(_), seg(_)) ==
    LET kept == {i \in DOMAIN src : keep(src[i])}
    IN /\ Len(segs) = Cardinality(kept)
       /\ \A i \in kept :
             Occurrences(segs, seg(src[i]))
                 = Cardinality({j \in kept : seg(src[j]) = seg(src[i])})

\* C19: for a text of N well-formed SPEAKER lines in any order, with any
\* lines that do not start with SPEAKER between them, parse_rttm returns
\* exactly N segments, one per well-formed line (speaker = field 7,
\* start = field 3, end = start + duration), in non-decreasing order of
\* start; parse_pyannote_annotation returns one segment per track, in
\* non-decreasing order of start.
C19_OneSegmentPerLineSorted ==
    /\ (/\ pc = "parsed_rttm"
        /\ \A i \in DOMAIN rttm_content :
              WellFormed(rttm_content[i]) \/ ~rttm_content[i].marker) =>
            /\ OnePerSource(speaker_segments, rttm_content, WellFormed,
                            StatedSegment)
            /\ NonDecreasingStart(speaker_segments)
    /\ pc = "parsed_pyannote" =>
            /\ OnePerSource(speaker_segments, annotation,
                            LAMBDA t : TRUE, LAMBDA t : t)
            /\ NonDecreasingStart(speaker_segments)

\* well-formed lines in decreasing order of start around a comment line
C19_Witness ==
    /\ pc = "parsed_rttm"
    /\ Len(rttm_content) = 3
    /\ WellFormed(rttm_content[1])
    /\ ~rttm_content[2].marker
    /\ WellFormed(rttm_content[3])
    /\ rttm_content[1].start > rttm_content[3].start
    /\ Len(speaker_segments) = 2

ShortSpeakerLine(line) == line.marker /\ line.nparts < 8

\* C20: a SPEAKER line with fewer than 8 fields is skipped without ending
\* the parse: each well-formed line before and after it yields its
\* segment, and the result is the one for the text without the short
\* lines.
C20_ShortLineSkipped ==
    (/\ pc = "parsed_rttm"
     /\ \E i \in DOMAIN rttm_content : ShortSpeakerLine(rttm_content[i])) =>
        /\ OnePerSource(speaker_segments, rttm_content, WellFormed,
                        StatedSegment)
        /\ speaker_segments =
              parse_rttm(SelectSeq(rttm_content,
                                   LAMBDA line : ~ShortSpeakerLine(line)))

\* a short line between two well-formed lines
C20_Witness ==
    /\ pc = "parsed_rttm"
    /\ Len(rttm_content) = 3
    /\ WellFormed(rttm_content[1])
    /\ ShortSpeakerLine(rttm_content[2])
    /\ WellFormed(rttm_content[3])
    /\ Len(speaker_segments) = 2


\* the word list as it was handed to the pipeline
Unlabelled(ws) == [i \in DOMAIN ws |-> [ws[i] EXCEPT !.speaker = None]]

\* the results of merge_similar_speakers(merge_micro_segments(
\* group_words_by_speaker(assign_speakers_to_words(ws, segs)))) with the
\* default thresholds
ComposedStages(ws, segs) ==
    LET mic == merge_micro_segments(
                   group_words_by_speaker(assign_speakers_to_words(ws, segs)),
                   DefaultMinDuration)
    IN {merge_similar_speakers(mic, DefaultMinSpeakerSegments,
                               DefaultMinSpeakerTimeRatio, order) :
            order \in Orders(dominant_speakers(mic, DefaultMinSpeakerSegments,
                                               DefaultMinSpeakerTimeRatio))}

\* C15: both entry points run the same stages in the same order:
\* align_transcription_with_diarization(words, rttm) returns
\* merge_similar_speakers(merge_micro_segments(group_words_by_speaker(
\* assign_speakers_to_words(words, parse_rttm(rttm))))) with the default
\* thresholds, and align_with_pyannote(words, annotation) returns the same
\* whenever parse_pyannote_annotation(annotation) = parse_rttm(rttm).
C15_SameStagesBothEntries ==
    /\ job[1].pc = "done" =>
          job[1].transcript_segments \in
              ComposedStages(Unlabelled(job[1].words),
                             parse_rttm(job[1].rttm_content))
    /\ (/\ job[1].pc = "done"
        /\ job[2].pc = "done"
        /\ Unlabelled(job[2].words) = Unlabelled(job[1].words)
        /\ parse_pyannote_annotation(job[2].annotation)
              = parse_rttm(job[1].rttm_content)) =>
            job[2].transcript_segments = job[1].transcript_segments

\* both entry points returned, on equal parsed diarizations, a list that
\* the micro-segment merger had shortened
C15_Witness ==
    /\ job[1].pc = "done"
    /\ job[2].pc = "done"
    /\ Len(job[1].speaker_segments) >= 3
    /\ job[2].speaker_segments = job[1].speaker_segments
    /\ job[2].annotation[1].start > 0
    /\ Len(job[1].words) >= 3
    /\ Len(job[2].transcript_segments)
          < Len(group_words_by_speaker(job[2].words))

\* the result of invocation i run alone on its own arguments
AloneResults(i) ==
    ComposedStages(Unlabelled(job[i].words),
                   IF job[i].entry = "rttm"
                   THEN parse_rttm(job[i].rttm_content)
                   ELSE parse_pyannote_annotation(job[i].annotation))

\* C16: two invocations on their own word lists and diarizations, their
\* steps interleaved in any way, each return what they return run alone,
\* and a step of one invocation leaves the other invocation's state as it
\* was.
C16_InterleavedAsAlone ==
    /\ [](\A i \in Jobs :
            job[i].pc = "done" => job[i].transcript_segments \in AloneResults(i))
    /\ [][\E i \in Jobs : \A k \in Jobs \ {i} : job'[k] = job[k]]_vars

\* invocation 2 finished between two steps of invocation 1, on a
\* diarization of the other speakers, and both returned several segments
C16_Witness ==
    /\ job[1].pc = "micro"
    /\ job[2].pc = "done"
    /\ Len(job[1].speaker_segments) >= 2
    /\ job[2].speaker_segments # job[1].speaker_segments
    /\ Len(job[2].transcript_segments) >= 2


\* A segment as the claim describes it: it has words, it starts where its
\* first word starts and ends where its last word ends, and its text is the
\* texts of its words in order (the source joins them with single spaces).
StatedShape(seg) ==
    /\ seg.words # <<>>
    /\ seg.start = seg.words[1].start
    /\ seg.end = seg.words[Len(seg.words)].end
    /\ seg.text = [k \in 1..Len(seg.words) |-> seg.words[k].text]

\* C21: every segment produced by the grouper, by the micro-segment merger
\* and by the minor-speaker consolidator has a non-empty word list, the
\* start of its first word, the end of its last word and the joined texts
\* of its words.
C21_SegmentsMatchTheirWords ==
    pc = "aligned" =>
        /\ \A i \in DOMAIN grouped : StatedShape(grouped[i])
        /\ \A i \in DOMAIN micro : StatedShape(micro[i])
        /\ \A i \in DOMAIN result : StatedShape(result[i])

\* the micro-segment merger combined grouper segments into one of three or
\* more words, and the consolidator returned segments
C21_Witness ==
    /\ pc = "aligned"
    /\ Len(micro) < Len(grouped)
    /\ \E i \in DOMAIN micro : Len(micro[i].words) >= 3
    /\ result # <<>>


\* C22: merge_micro_segments returns a list of 0, 1 or 2 segments as it is,
\* whatever the durations and speakers of its segments, two segments of one
\* speaker included.
C22_ShortListsUntouched ==
    (pc = "micro_done" /\ Len(segments) <= 2) => result = segments

\* two segments of one speaker, the first of them shorter than min_duration
C22_Witness ==
    /\ pc = "micro_done"
    /\ Len(segments) = 2
    /\ segments[1].speaker = segments[2].speaker
    /\ IsShort(segments[1])
    /\ result = segments


\* a SPEAKER line with 8 or more fields whose start or duration is not a
\* number
BadNumber(line) == line.marker /\ line.nparts >= 8 /\ ~line.numeric

\* C23: a SPEAKER line with 8 or more fields whose start or duration is
\* not a number does not make parse_rttm fail: the call returns, the line
\* is skipped, and each well-formed line of the text yields its segment.
C23_BadNumberLineSkipped ==
    (/\ pc \in {"parsed_rttm", "raised_rttm"}
     /\ \E i \in DOMAIN rttm_content : BadNumber(rttm_content[i])) =>
        /\ pc = "parsed_rttm"
        /\ OnePerSource(speaker_segments, rttm_content, WellFormed,
                        StatedSegment)


\* the least value of min(|seg.start - word.start|, |seg.end - word.end|)
\* over the segments of the list
LeastBoundaryDistance(word) ==
    CHOOSE d \in {StatedBoundaryDistance(speaker_segments[i], word) :
                     i \in DOMAIN speaker_segments} :
        \A j \in DOMAIN speaker_segments :
            d <= StatedBoundaryDistance(speaker_segments[j], word)

\* C24: a word that no segment overlaps gets the speaker of a segment whose
\* min(|seg.start - word.start|, |seg.end - word.end|) is the least over
\* all segments of the list.
C24_FallbackMinimizesBoundaryDistance ==
    (/\ pc = "assigned"
     /\ speaker_segments # <<>>
     /\ \A i \in DOMAIN speaker_segments :
           ~StatedOverlaps(speaker_segments[i], words[1])) =>
        \E i \in DOMAIN speaker_segments :
            /\ speaker_segments[i].speaker = words[1].speaker
            /\ StatedBoundaryDistance(speaker_segments[i], words[1])
                  = LeastBoundaryDistance(words[1])

\* two segments of two speakers on either side of the word, the second of
\* the list strictly nearer by that measure
C24_Witness ==
    /\ pc = "assigned"
    /\ Len(speaker_segments) = 2
    /\ speaker_segments[1].speaker # speaker_segments[2].speaker
    /\ speaker_segments[2].end <= words[1].start
    /\ words[1].end <= speaker_segments[1].start
    /\ words[1].start < words[1].end
    /\ StatedBoundaryDistance(speaker_segments[2], words[1])
          < StatedBoundaryDistance(speaker_segments[1], words[1])
    /\ words[1].speaker = speaker_segments[2].speaker


\* C25 as stated: for every word with start <= end and every speaker
\* segment with start < end, overlaps_with(word) is true exactly when
\* overlap_duration(word) > 0.
C25_OverlapsIffPositiveDuration ==
    pc = "overlap_checked" =>
        \A i \in DOMAIN speaker_segments :
            (/\ words[1].start <= words[1].end
             /\ speaker_segments[i].start < speaker_segments[i].end) =>
                (result[i].overlaps <=> result[i].duration > 0)

\* C25 as amended: the equivalence holds for every word with start < end
\* and every speaker segment with start < end; for a word with start = end
\* the overlap duration is 0, and overlaps_with is true exactly when the
\* word lies strictly inside the segment.
C25_OverlapsIffPositiveDurationOfProperWord ==
    pc = "overlap_checked" =>
        \A i \in DOMAIN speaker_segments :
            LET seg == speaker_segments[i]
                word == words[1]
            IN seg.start < seg.end =>
                /\ word.start < word.end =>
                      (result[i].overlaps <=> result[i].duration > 0)
                /\ word.start = word.end =>
                      /\ result[i].duration = 0
                      /\ result[i].overlaps <=>
                            (seg.start < word.start /\ word.start < seg.end)

\* a word of positive length with one segment that shares part of its time
\* and one that only touches its end
C25_Witness ==
    /\ pc = "overlap_checked"
    /\ Len(speaker_segments) = 2
    /\ words[1].start < words[1].end
    /\ speaker_segments[1].start < speaker_segments[1].end
    /\ speaker_segments[2].start < speaker_segments[2].end
    /\ speaker_segments[1].start < words[1].start
    /\ words[1].start < speaker_segments[1].end
    /\ speaker_segments[1].end < words[1].end
    /\ speaker_segments[2].start = words[1].end
    /\ result[1].overlaps
    /\ ~result[2].overlaps


\* the overlapping segments whose overlap with the word is the greatest
TiedForGreatest(word) ==
    {i \in OverlappedBy(word) :
        \A j \in OverlappedBy(word) :
            StatedOverlap(speaker_segments[i], word)
                >= StatedOverlap(speaker_segments[j], word)}

\* C26: when several overlapping segments tie for the greatest overlap
\* duration, the word gets the speaker of the first of them in list order.
C26_TieGoesToFirstInList ==
    (/\ pc = "assigned"
     /\ Cardinality(OverlappedBy(words[1])) >= 2) =>
        \E i \in TiedForGreatest(words[1]) :
            /\ \A j \in TiedForGreatest(words[1]) : i <= j
            /\ words[1].speaker = speaker_segments[i].speaker

\* two segments of two speakers with the same positive overlap; the word
\* has the speaker of the first
C26_Witness ==
    /\ pc = "assigned"
    /\ Len(speaker_segments) = 2
    /\ TiedForGreatest(words[1]) = {1, 2}
    /\ StatedOverlap(speaker_segments[1], words[1]) > 0
    /\ speaker_segments[1] # speaker_segments[2]
    /\ speaker_segments[1].start > speaker_segments[2].start
    /\ speaker_segments[1].speaker # speaker_segments[2].speaker
    /\ words[1].speaker = speaker_segments[1].speaker


\* C27: the list merge_micro_segments returns holds no interior segment
\* shorter than min_duration between two segments of one speaker, and
\* merge_micro_segments with the same min_duration returns that list as it
\* is, for every input list.
C27_ResultIsFixedPoint ==
    /\ pc \in {"micro_done", "micro_twice"} =>
            \A i \in DOMAIN result : ~Sandwiched(result, i)
    /\ pc = "micro_twice" => micro = result

\* the first call merged segments and returned three or more segments, an
\* interior one of them short; the second call has returned
C27_Witness ==
    /\ pc = "micro_twice"
    /\ Len(result) < Len(segments)
    /\ Len(result) >= 3
    /\ \E i \in 2..(Len(result) - 1) : IsShort(result[i])
    /\ micro = result


\* C28: after merge_similar_speakers has merged at least one minor speaker,
\* no speaker of its output is minor when the classification is computed
\* again on the output with the same thresholds.
C28_NoMinorAfterMerge ==
    (/\ pc = "similar_once"
     /\ FoundBoth
     /\ TotalOf(result) # 0) =>
        StatedMinor(result) = {}


\* the labels of the diarization segments
DiarizationLabels ==
    {speaker_segments[i].speaker : i \in DOMAIN speaker_segments}

\* C29: when the diarization yields at least one speaker segment, after the
\* pipeline every word has a speaker, and every word's speaker and every
\* output segment's speaker is a label of the diarization segments.
C29_OnlyDiarizationLabels ==
    (pc = "aligned" /\ speaker_segments # <<>>) =>
        /\ \A k \in DOMAIN words : words[k].speaker \in DiarizationLabels
        /\ \A i \in DOMAIN result :
              /\ result[i].speaker \in DiarizationLabels
              /\ \A k \in DOMAIN result[i].words :
                    result[i].words[k].speaker \in DiarizationLabels

\* two speakers in the diarization, and a word that starts after its last
\* segment has ended
C29_Witness ==
    /\ pc = "aligned"
    /\ Cardinality(DiarizationLabels) = 2
    /\ \E k \in DOMAIN words : \A i \in DOMAIN speaker_segments :
          speaker_segments[i].end < words[k].start
    /\ result # <<>>


\* C30: merge_similar_speakers is deterministic: every run on the same
\* segment list with the same thresholds returns the list this run
\* returned, whatever order the set of dominant speakers is iterated in,
\* two dominant speakers that tie on gap and total duration included.
C30_SameInputSameOutput ==
    pc = "similar_once" =>
        \A order \in Orders(dominant_speakers(segments, min_speaker_segments,
                                               min_speaker_time_ratio)) :
            merge_similar_speakers(segments, min_speaker_segments,
                                   min_speaker_time_ratio, order) = result

====
